---- MODULE Spec2Model ----
(***************************************************************************)
(* SENTINEL AEGIS (src/SENTINEL-AEGIS.py): the assessment coordinator, its *)
(* risk aggregation, risk classification and recommendation builder, and   *)
(* the command line entry point that drives them.                          *)
(*                                                                         *)
(* Python dicts are functions whose DOMAIN is the set of keys present;     *)
(* lists are sequences.  The float arithmetic of _calculate_risk_score is  *)
(* modelled in exact fixed point: a score is an integer number of          *)
(* hundredths (Scale), a weight an integer number of hundredths of one.    *)
(***************************************************************************)
EXTENDS Integers, Sequences, FiniteSets, TLC

VARIABLES
    pc,          \* position of main(): "main", "run_single", "single_report",
                 \* "loop", "assess_report", "assess_save", "print", "done", "crashed"
    args_module, \* args.module (NoArg when --module is not given)
    todo,        \* modules the for loop of run_assessment has not visited yet
    ran,         \* what each module.run() call did, in call order
    results,     \* the results dict (main's `result` in restricted mode)
    report,      \* the report dict, NoReport until _generate_report returns
    saved,       \* the report files _save_report has written, in order
    stdout,      \* what main() has printed
    log,         \* the records sent to the logger
    exc,         \* the exception that left main(), NoExc if none
    arg_score,   \* argument of a direct _risk_level call
    ret_level    \* value returned by that call

vars == <<pc, args_module, todo, ran, results, report, saved, stdout, log, exc,
          arg_score, ret_level>>

-----------------------------------------------------------------------------
(* Bounds of the model *)

\* largest risk_score a module reports (the scale of the scores is 0..MaxScore)
MaxScore == 100
\* longest "vulnerabilities" list the recommendation builder is given
MaxVulns == 2
\* scores given directly to _risk_level range up to MaxLevelInput points
MaxLevelInput == 101

-----------------------------------------------------------------------------
(* Values *)

NoArg == "<None>"
NoExc == "<none>"
NoReport == [built |-> FALSE]
EmptyDict == <<>>

\* hundredths per score point: 35 * 0.3 = 10.5 is 35 * 30 = 1050
Scale == 100

\* self.modules, in registration (dict insertion) order
ModuleOrder ==
    << "vulnerability_scanner", "policy_analyzer", "attack_simulator",
       "compliance_auditor", "threat_monitor", "incident_response",
       "training_platform" >>

ModuleNames == { ModuleOrder[k] : k \in 1..Len(ModuleOrder) }

\* dict.get(key, default)
Get(d, key, default) == IF key \in DOMAIN d THEN d[key] ELSE default

\* d[key] = value on a dict
Put(d, key, value) == [k \in (DOMAIN d) \cup {key} |-> IF k = key THEN value ELSE d[k]]

\* del d[key]
Del(d, key) ==
    IF (DOMAIN d) \ {key} = {} THEN EmptyDict
    ELSE [k \in (DOMAIN d) \ {key} |-> d[k]]

RECURSIVE Sum(_)
Sum(s) == IF s = <<>> THEN 0 ELSE Head(s) + Sum(Tail(s))

-----------------------------------------------------------------------------
(* SentinelAegis._calculate_risk_score *)

WeightVulnerabilityScanner == 30
WeightPolicyAnalyzer == 20
WeightAttackSimulator == 25
WeightComplianceAuditor == 25
DefaultRiskScore == 50

\* one `if name in results and "risk_score" in results[name]: scores.append(...)`
ScoreTerm(res, name, weight) ==
    IF name \in DOMAIN res /\ "risk_score" \in DOMAIN res[name]
    THEN << res[name]["risk_score"] * weight >>
    ELSE << >>

Scores_SwappedWeights(res) ==
    ScoreTerm(res, "vulnerability_scanner", WeightPolicyAnalyzer)
    \o ScoreTerm(res, "policy_analyzer", WeightVulnerabilityScanner)
    \o ScoreTerm(res, "attack_simulator", WeightAttackSimulator)
    \o ScoreTerm(res, "compliance_auditor", WeightComplianceAuditor)

Scores(res) ==
    ScoreTerm(res, "vulnerability_scanner", WeightVulnerabilityScanner)
    \o ScoreTerm(res, "policy_analyzer", WeightPolicyAnalyzer)
    \o ScoreTerm(res, "attack_simulator", WeightAttackSimulator)
    \o ScoreTerm(res, "compliance_auditor", WeightComplianceAuditor)

\* `sum(scores) if scores else 50`, in hundredths of a point
CalculateRiskScore_ZeroIsEmpty(res) ==
    IF Sum(Scores(res)) # 0 THEN Sum(Scores(res)) ELSE DefaultRiskScore * Scale

CalculateRiskScore(res) ==
    IF Scores(res) # << >> THEN Sum(Scores(res)) ELSE DefaultRiskScore * Scale

-----------------------------------------------------------------------------
(* SentinelAegis._risk_level; score is in hundredths of a point *)

LowBelow == 20
MediumBelow == 50
HighBelow == 80

RiskLevel_InclusiveUpper(score) ==
    IF score <= LowBelow * Scale THEN "LOW"
    ELSE IF score <= MediumBelow * Scale THEN "MEDIUM"
    ELSE IF score <= HighBelow * Scale THEN "HIGH"
    ELSE "CRITICAL"

RiskLevel(score) ==
    IF score < LowBelow * Scale THEN "LOW"
    ELSE IF score < MediumBelow * Scale THEN "MEDIUM"
    ELSE IF score < HighBelow * Scale THEN "HIGH"
    ELSE "CRITICAL"

-----------------------------------------------------------------------------
(* SentinelAegis._generate_recommendations *)

\* the sort key: {"high": 0, "medium": 1, "low": 2}.get(x["priority"], 3)
PriorityRank(priority) ==
    IF priority = "high" THEN 0
    ELSE IF priority = "medium" THEN 1
    ELSE IF priority = "low" THEN 2
    ELSE 3

\* the body of the `for vuln in vulns` loop: what one finding appends
Recommend_CriticalOnly(vuln) ==
    IF "severity" \in DOMAIN vuln /\ vuln["severity"] \in {"critical"}
    THEN << [ priority |-> "high",
              module |-> "vulnerability_scanner",
              finding |-> Get(vuln, "name", "Unknown vulnerability"),
              action |-> Get(vuln, "remediation", "Patch system immediately") ] >>
    ELSE << >>

Recommend(vuln) ==
    IF "severity" \in DOMAIN vuln /\ vuln["severity"] \in {"critical", "high"}
    THEN << [ priority |-> "high",
              module |-> "vulnerability_scanner",
              finding |-> Get(vuln, "name", "Unknown vulnerability"),
              action |-> Get(vuln, "remediation", "Patch system immediately") ] >>
    ELSE << >>

RECURSIVE ScanVulns(_)
ScanVulns(vulns) ==
    IF vulns = << >> THEN << >>
    ELSE Recommend(Head(vulns)) \o ScanVulns(Tail(vulns))

\* sorted(..., key=...) is a stable sort: an element goes after every element
\* already placed whose key is not greater than its own
RECURSIVE InsertBeforeEqual(_, _)
InsertBeforeEqual(placed, x) ==
    IF placed = << >> THEN << x >>
    ELSE IF PriorityRank(Head(placed)["priority"]) < PriorityRank(x["priority"])
         THEN << Head(placed) >> \o InsertBeforeEqual(Tail(placed), x)
         ELSE << x >> \o placed

RECURSIVE InsertStable(_, _)
InsertStable(placed, x) ==
    IF placed = << >> THEN << x >>
    ELSE IF PriorityRank(Head(placed)["priority"]) <= PriorityRank(x["priority"])
         THEN << Head(placed) >> \o InsertStable(Tail(placed), x)
         ELSE << x >> \o placed

RECURSIVE SortedByPriority(_)
SortedByPriority(recs) ==
    IF recs = << >> THEN << >>
    ELSE InsertStable(SortedByPriority(SubSeq(recs, 1, Len(recs) - 1)), recs[Len(recs)])

GenerateRecommendations(res) ==
    LET recommendations ==
            IF "vulnerability_scanner" \in DOMAIN res
            THEN ScanVulns(Get(res["vulnerability_scanner"], "vulnerabilities", << >>))
            ELSE << >>
    IN  SortedByPriority(recommendations)

-----------------------------------------------------------------------------
(* SentinelAegis._generate_report.  The timestamp field is the wall clock  *)
(* reading, which nothing in the program reads back; it is left out.       *)

Organization == "Default Organization"

GenerateReport(res) ==
    [ built |-> TRUE,
      organization |-> Organization,
      risk_score |-> CalculateRiskScore(res),
      risk_level |-> RiskLevel(CalculateRiskScore(res)),
      module_results |-> res,
      recommendations |-> GenerateRecommendations(res) ]

-----------------------------------------------------------------------------
(* The module classes.  Each run() of the repository returns a fixed dict  *)
(* (StubResult; scan_time, a clock reading, is left out).  The coordinator *)
(* is written against any object with a run(), so a call may also raise    *)
(* or return another dict of the same shape (OtherResults).                *)

StubResult(name) ==
    CASE name = "vulnerability_scanner" ->
            [ status |-> "completed",
              risk_score |-> 35,
              vulnerabilities |->
                << [ id |-> "CVE-2023-1234", name |-> "SQL Injection Vulnerability",
                     severity |-> "high", affected_systems |-> << "web-server-01" >>,
                     remediation |-> "Update database middleware" ],
                   [ id |-> "CVE-2023-5678", name |-> "Outdated SSL Certificate",
                     severity |-> "medium", affected_systems |-> << "mail-server" >>,
                     remediation |-> "Renew SSL certificates" ] >> ]
      [] name = "policy_analyzer" ->
            [ status |-> "completed",
              risk_score |-> 45,
              policy_gaps |->
                << [ policy |-> "Password Policy", status |-> "outdated",
                     recommendation |-> "Implement MFA" ],
                   [ policy |-> "Data Retention", status |-> "missing",
                     recommendation |-> "Create data retention policy" ] >> ]
      [] name = "attack_simulator" ->
            [ status |-> "completed",
              risk_score |-> 60,
              successful_attacks |->
                << [ vector |-> "Phishing", success_rate |-> "65%",
                     recommendation |-> "Implement email filtering" ],
                   [ vector |-> "Weak Credentials", success_rate |-> "40%",
                     recommendation |-> "Password policy enforcement" ] >> ]
      [] name = "compliance_auditor" ->
            [ status |-> "completed",
              risk_score |-> 30,
              frameworks |->
                << [ name |-> "GDPR", compliance_score |-> "75%",
                     gaps |-> << "Data inventory incomplete" >> ],
                   [ name |-> "ISO 27001", compliance_score |-> "82%",
                     gaps |-> << "Missing incident response procedures" >> ] >> ]
      [] name = "threat_monitor" ->
            [ status |-> "completed",
              active_threats |->
                << [ name |-> "APT Group 123", target_industry |-> "Finance",
                     likelihood |-> "medium" ],
                   [ name |-> "Ransomware Campaign", target_industry |-> "All",
                     likelihood |-> "high" ] >> ]
      [] name = "incident_response" ->
            [ status |-> "completed",
              average_response_time |-> "45 minutes",
              automation_level |-> "medium",
              recommendations |-> << "Implement SOAR platform", "Update playbooks" >> ]
      [] name = "training_platform" ->
            [ status |-> "completed",
              employee_completion_rate |-> "78%",
              phishing_simulation_success |-> "22%",
              recommendations |-> << "Targeted training for finance department" >> ]

\* the modules _calculate_risk_score reads
Designated ==
    { "vulnerability_scanner", "policy_analyzer", "attack_simulator",
      "compliance_auditor" }

\* the texts str(e) of the exceptions a run() raises
FailureTexts == { "connection refused" }

\* dicts a run() may return besides the stub's
OtherResults(name) ==
    (IF name \in Designated
     THEN { [ status |-> "error", risk_score |-> MaxScore ],
            [ status |-> "completed", risk_score |-> 0 ] }
     ELSE { [ status |-> "completed", risk_score |-> MaxScore ] })
    \cup
    (IF name = "vulnerability_scanner"
     THEN { [ status |-> "completed",
              vulnerabilities |->
                << [ severity |-> "high" ],
                   [ severity |-> "low", name |-> "Verbose banner" ],
                   [ severity |-> "critical", name |-> "Default password",
                     remediation |-> "Rotate credentials" ] >> ] }
     ELSE { })

Returned(value) == [ kind |-> "return", value |-> value ]
Raised(text) == [ kind |-> "raise", message |-> text ]

\* what one call of self.modules[name].run() can do
Outcomes(name) ==
    { Returned(StubResult(name)) }
    \cup { Returned(r) : r \in OtherResults(name) }
    \cup { Raised(t) : t \in FailureTexts }

-----------------------------------------------------------------------------
(* main() and SentinelAegis.run_assessment *)

LogRecord(level, text, arg) == [ level |-> level, text |-> text, arg |-> arg ]

\* the values of args.module: absent, empty, a registered name, another name
ArgValues == ModuleNames \cup { NoArg, "", "no_such_module" }

\* `args.module and args.module in sentinel.modules`
Restricted(arg) == arg \notin { NoArg, "" } /\ arg \in ModuleNames

\* the dict the except clause stores: {"status": "error", "message": str(e)}
ErrorEntry(text) == [ status |-> "error", message |-> text ]

\* the state SentinelAegis(args.config) leaves: the constructor has logged
Init ==
    /\ pc = "main"
    /\ args_module \in ArgValues
    /\ todo = << >>
    /\ ran = EmptyDict
    /\ results = EmptyDict
    /\ report = NoReport
    /\ saved = << >>
    /\ stdout = << >>
    /\ log = << LogRecord("INFO", "SENTINEL AEGIS initialized", "1.0.0") >>
    /\ exc = NoExc
    /\ arg_score = 0
    /\ ret_level = "<none>"

\* main, restricted branch: result = {module_name: sentinel.modules[module_name].run()}
RunSingleModule ==
    /\ pc = "main"
    /\ Restricted(args_module)
    /\ \E o \in Outcomes(args_module) :
        /\ ran' = Put(ran, args_module, o)
        /\ IF o.kind = "return"
           THEN /\ results' = Put(EmptyDict, args_module, o.value)
                /\ pc' = "single_report"
                /\ exc' = exc
           ELSE \* nothing in main() catches it
                /\ results' = results
                /\ pc' = "crashed"
                /\ exc' = o.message
    /\ UNCHANGED << args_module, todo, report, saved, stdout, log, arg_score, ret_level >>

\* main, restricted branch: report = sentinel._generate_report(result)
GenerateSingleReport ==
    /\ pc = "single_report"
    /\ report' = GenerateReport(results)
    /\ pc' = "print"
    /\ UNCHANGED << args_module, todo, ran, results, saved, stdout, log, exc,
                    arg_score, ret_level >>

\* main, else branch, and the head of run_assessment
StartAssessment ==
    /\ pc = "main"
    /\ ~ Restricted(args_module)
    /\ log' = Append(log, LogRecord("INFO", "Starting comprehensive security assessment", ""))
    /\ results' = EmptyDict
    /\ todo' = ModuleOrder
    /\ pc' = "loop"
    /\ UNCHANGED << args_module, ran, report, saved, stdout, exc, arg_score, ret_level >>

\* one iteration of `for name, module in self.modules.items()`
RunNextModule_AbortOnError ==
    /\ pc = "loop"
    /\ todo # << >>
    /\ LET name == Head(todo) IN
       \E o \in Outcomes(name) :
        /\ ran' = Put(ran, name, o)
        /\ IF o.kind = "return"
           THEN /\ results' = Put(results, name, o.value)
                /\ log' = Append(log, LogRecord("INFO", "Running module: ", name))
                /\ todo' = Tail(todo)
           ELSE /\ results' = Put(results, name, ErrorEntry(o.message))
                /\ log' = log \o << LogRecord("INFO", "Running module: ", name),
                                    LogRecord("ERROR", "Error in module ", << name, o.message >>) >>
                /\ todo' = << >>
    /\ UNCHANGED << pc, args_module, report, saved, stdout, exc, arg_score, ret_level >>

RunNextModule ==
    /\ pc = "loop"
    /\ todo # << >>
    /\ LET name == Head(todo) IN
       \E o \in Outcomes(name) :
        /\ ran' = Put(ran, name, o)
        /\ IF o.kind = "return"
           THEN /\ results' = Put(results, name, o.value)
                /\ log' = Append(log, LogRecord("INFO", "Running module: ", name))
           ELSE /\ results' = Put(results, name, ErrorEntry(o.message))
                /\ log' = log \o << LogRecord("INFO", "Running module: ", name),
                                    LogRecord("ERROR", "Error in module ", << name, o.message >>) >>
    /\ todo' = Tail(todo)
    /\ UNCHANGED << pc, args_module, report, saved, stdout, exc, arg_score, ret_level >>

\* run_assessment after the loop: report = self._generate_report(results)
AssessReport ==
    /\ pc = "loop"
    /\ todo = << >>
    /\ report' = GenerateReport(results)
    /\ pc' = "assess_save"
    /\ UNCHANGED << args_module, todo, ran, results, saved, stdout, log, exc,
                    arg_score, ret_level >>

\* self._save_report(report); return report
SaveReport ==
    /\ pc = "assess_save"
    /\ saved' = Append(saved, report)
    /\ log' = Append(log, LogRecord("INFO", "Report saved to ", "security_assessment"))
    /\ pc' = "print"
    /\ UNCHANGED << args_module, todo, ran, results, report, stdout, exc,
                    arg_score, ret_level >>

\* the two print calls that end main()
PrintCompletion ==
    /\ pc = "print"
    /\ stdout' = stdout \o << << "Assessment completed. Risk level: ", report["risk_level"] >>,
                              << "Report saved to ", "report_path" >> >>
    /\ pc' = "done"
    /\ UNCHANGED << args_module, todo, ran, results, report, saved, log, exc,
                    arg_score, ret_level >>

Next ==
    \/ RunSingleModule
    \/ GenerateSingleReport
    \/ StartAssessment
    \/ RunNextModule
    \/ AssessReport
    \/ SaveReport
    \/ PrintCompletion

Spec == Init /\ [][Next]_vars

-----------------------------------------------------------------------------
(* _risk_level called on its own, on every score from one point below zero *)
(* to MaxLevelInput points, in steps of a hundredth.                       *)

LevelInputs == (0 - Scale) .. (MaxLevelInput * Scale)

InitLevel ==
    /\ pc = "unit"
    /\ args_module = NoArg
    /\ todo = << >>
    /\ ran = EmptyDict
    /\ results = EmptyDict
    /\ report = NoReport
    /\ saved = << >>
    /\ stdout = << >>
    /\ log = << >>
    /\ exc = NoExc
    /\ arg_score \in LevelInputs
    /\ ret_level = "<none>"

CallRiskLevel ==
    /\ pc = "unit"
    /\ ret_level = "<none>"
    /\ ret_level' = RiskLevel(arg_score)
    /\ UNCHANGED << pc, args_module, todo, ran, results, report, saved, stdout,
                    log, exc, arg_score >>

NextLevel == CallRiskLevel

SpecLevel == InitLevel /\ [][NextLevel]_vars

-----------------------------------------------------------------------------
(* _generate_report called on results dicts that are edited one entry at a *)
(* time: every dict over ScoreModules whose entries come from ScoreResults. *)

ScoreModules == Designated \cup { "threat_monitor" }

ScoreValues(name) ==
    { 0, MaxScore }
    \cup (IF "risk_score" \in DOMAIN StubResult(name)
          THEN { StubResult(name)["risk_score"] } ELSE { })

ScoreResults(name) ==
    { [ status |-> st, risk_score |-> v ] :
        st \in (IF name \in Designated THEN { "completed", "error" } ELSE { "completed" }),
        v \in ScoreValues(name) }
    \cup (IF name \in Designated
          THEN { ErrorEntry(t) : t \in FailureTexts }
          ELSE { StubResult(name) })

InitScore ==
    /\ pc = "unit"
    /\ args_module = NoArg
    /\ todo = << >>
    /\ ran = EmptyDict
    /\ results = EmptyDict
    /\ report = GenerateReport(EmptyDict)
    /\ saved = << >>
    /\ stdout = << >>
    /\ log = << >>
    /\ exc = NoExc
    /\ arg_score = 0
    /\ ret_level = "<none>"

\* results[name] = r; report = _generate_report(results)
SetResult ==
    /\ pc = "unit"
    /\ \E name \in ScoreModules : \E r \in ScoreResults(name) :
        results' = Put(results, name, r)
    /\ report' = GenerateReport(results')
    /\ UNCHANGED << pc, args_module, todo, ran, saved, stdout, log, exc,
                    arg_score, ret_level >>

\* del results[name]; report = _generate_report(results)
RemoveResult ==
    /\ pc = "unit"
    /\ \E name \in DOMAIN results : results' = Del(results, name)
    /\ report' = GenerateReport(results')
    /\ UNCHANGED << pc, args_module, todo, ran, saved, stdout, log, exc,
                    arg_score, ret_level >>

NextScore == SetResult \/ RemoveResult

SpecScore == InitScore /\ [][NextScore]_vars

-----------------------------------------------------------------------------
(* _generate_report called once on a results dict whose vulnerability      *)
(* scanner entry is absent, an error entry, or carries any list of at most *)
(* MaxVulns findings; another module may carry a finding list of its own.  *)

Severities == { "critical", "high", "medium" }
VulnNames == { "SQL Injection Vulnerability", "Outdated SSL Certificate" }
Remediations == { "Update database middleware" }

\* the findings: every combination of the three keys, each present or not
Vulns ==
    { [ k \in ks |-> CASE k = "severity" -> sv
                       [] k = "name" -> nm
                       [] k = "remediation" -> rm ] :
        ks \in SUBSET { "severity", "name", "remediation" },
        sv \in Severities, nm \in VulnNames, rm \in Remediations }

VulnLists == UNION { [ 1..n -> Vulns ] : n \in 0..MaxVulns }

ScannerEntries ==
    { [ status |-> "completed", vulnerabilities |-> vl ] : vl \in VulnLists }
    \cup { [ status |-> "completed", risk_score |-> 35 ] }
    \cup { ErrorEntry(t) : t \in FailureTexts }

OtherEntries ==
    { [ status |-> "completed",
        vulnerabilities |-> << [ severity |-> "critical", name |-> "Weak policy" ] >> ] }

RecInputs ==
    LET scanner == { EmptyDict } \cup
                   { Put(EmptyDict, "vulnerability_scanner", e) : e \in ScannerEntries }
    IN  scanner \cup { Put(d, "policy_analyzer", e) : d \in scanner, e \in OtherEntries }

InitRecs ==
    /\ pc = "unit"
    /\ args_module = NoArg
    /\ todo = << >>
    /\ ran = EmptyDict
    /\ results \in RecInputs
    /\ report = NoReport
    /\ saved = << >>
    /\ stdout = << >>
    /\ log = << >>
    /\ exc = NoExc
    /\ arg_score = 0
    /\ ret_level = "<none>"

\* report = _generate_report(results)
CallGenerateReport ==
    /\ pc = "unit"
    /\ report = NoReport
    /\ report' = GenerateReport(results)
    /\ UNCHANGED << pc, args_module, todo, ran, results, saved, stdout, log, exc,
                    arg_score, ret_level >>

NextRecs == CallGenerateReport

SpecRecs == InitRecs /\ [][NextRecs]_vars

-----------------------------------------------------------------------------
(* Properties *)

Levels == { "LOW", "MEDIUM", "HIGH", "CRITICAL" }

\* C1: _risk_level(s) is LOW iff s < 20, MEDIUM iff 20 <= s < 50, HIGH iff
\* 50 <= s < 80 and CRITICAL iff s >= 80, so exactly one level per score and
\* 20, 50 and 80 fall in the upper band.
C1_RiskLevelBands ==
    ret_level # "<none>" =>
        /\ ret_level \in Levels
        /\ (ret_level = "LOW") <=> (arg_score < 20 * Scale)
        /\ (ret_level = "MEDIUM") <=> (20 * Scale <= arg_score /\ arg_score < 50 * Scale)
        /\ (ret_level = "HIGH") <=> (50 * Scale <= arg_score /\ arg_score < 80 * Scale)
        /\ (ret_level = "CRITICAL") <=> (arg_score >= 80 * Scale)
        /\ (arg_score = 20 * Scale => ret_level = "MEDIUM")
        /\ (arg_score = 50 * Scale => ret_level = "HIGH")
        /\ (arg_score = 80 * Scale => ret_level = "CRITICAL")

C1_Witness == arg_score = 50 * Scale /\ ret_level = "HIGH"

FullMode == pc # "unit" /\ ~ Restricted(args_module)
RestrictedMode == pc # "unit" /\ Restricted(args_module)
LoopEnded == (pc = "loop" /\ todo = << >>) \/ pc \in { "assess_save", "print", "done" }

\* C2: in run_assessment a run() that raises never ends the loop or the run:
\* every registered module is visited, after the loop the results dict has
\* exactly one entry per registered module, {status: error, message: text}
\* for a module that raised and the returned dict for one that returned, and
\* the report built from it is returned to main.
C2_FailureIsolation ==
    FullMode =>
        /\ pc # "crashed" /\ exc = NoExc
        /\ LoopEnded =>
            /\ DOMAIN ran = ModuleNames
            /\ DOMAIN results = ModuleNames
            /\ \A m \in ModuleNames :
                /\ ran[m].kind = "raise" =>
                     results[m] = [ status |-> "error", message |-> ran[m].message ]
                /\ ran[m].kind = "return" => results[m] = ran[m].value
        /\ pc \in { "assess_save", "print", "done" } =>
            /\ report["built"]
            /\ report["module_results"] = results
            /\ report["risk_level"] \in Levels

C2_Witness ==
    /\ FullMode /\ pc = "done"
    /\ ran["vulnerability_scanner"].kind = "raise"
    /\ ran["threat_monitor"].kind = "raise"
    /\ ran["policy_analyzer"].kind = "return"
    /\ report["built"]

\* C3 (as claimed): in restricted mode a run() that raises is turned into
\* an error entry and never leaves main; a report is built from that entry.
C3_RestrictedFailureIsolated ==
    (RestrictedMode /\ args_module \in DOMAIN ran /\ ran[args_module].kind = "raise") =>
        /\ pc # "crashed" /\ exc = NoExc
        /\ results = Put(EmptyDict, args_module,
                         [ status |-> "error", message |-> ran[args_module].message ])

\* C4 (as claimed): running only threat_monitor, whose result has no risk
\* score, gives risk score 50, risk level MEDIUM and no recommendation.
C4_ThreatMonitorOnlyIsMedium ==
    ( /\ RestrictedMode /\ pc = "done"
      /\ args_module = "threat_monitor"
      /\ ran["threat_monitor"] = Returned(StubResult("threat_monitor")) ) =>
        /\ report["risk_score"] = 50 * Scale
        /\ report["risk_level"] = "MEDIUM"
        /\ report["recommendations"] = << >>

Weights ==
    [ vulnerability_scanner |-> 30, policy_analyzer |-> 20,
      attack_simulator |-> 25, compliance_auditor |-> 25 ]

RECURSIVE WeightedSum(_, _)
WeightedSum(res, ms) ==
    IF ms = {} THEN 0
    ELSE LET m == CHOOSE x \in ms : TRUE
         IN  res[m]["risk_score"] * Weights[m] + WeightedSum(res, ms \ {m})

\* the designated modules whose entry carries a risk_score
Carriers(res) == { m \in Designated \cap DOMAIN res : "risk_score" \in DOMAIN res[m] }

\* those among them whose entry has status completed
CompletedCarriers(res) ==
    { m \in Carriers(res) : "status" \in DOMAIN res[m] /\ res[m]["status"] = "completed" }

\* C5 (as claimed): a designated module adds riskScore * weight only when its
\* entry has status completed; an entry with status error adds nothing even
\* when it carries a riskScore.
C5_OnlyCompletedContribute ==
    (pc # "unit" /\ report["built"]) =>
        report["risk_score"] =
            IF CompletedCarriers(results) = {} THEN 50 * Scale
            ELSE WeightedSum(results, CompletedCarriers(results))

DesignatedPart(res) == [ m \in Designated \cap DOMAIN res |-> res[m] ]

ScoreOf(res, m) == IF m \in Carriers(res) THEN res[m]["risk_score"] ELSE -1

C6_Sum ==
    /\ Carriers(results) # {} =>
         report["risk_score"] = WeightedSum(results, Carriers(results))
    /\ ( /\ ScoreOf(results, "vulnerability_scanner") = 35
         /\ ScoreOf(results, "policy_analyzer") = 45
         /\ ScoreOf(results, "attack_simulator") = 60
         /\ ScoreOf(results, "compliance_auditor") = 30 ) =>
         (report["risk_score"] = 42 * Scale /\ report["risk_level"] = "MEDIUM")

C6_Step ==
    /\ DesignatedPart(results) = DesignatedPart(results') =>
         report'["risk_score"] = report["risk_score"]
    /\ \A m \in Designated :
         ( /\ m \in Carriers(results) /\ m \in Carriers(results')
           /\ Del(results, m) = Del(results', m) ) =>
             report'["risk_score"] - report["risk_score"] =
                 Weights[m] * (results'[m]["risk_score"] - results[m]["risk_score"])

C7_DefaultOnlyWhenNoScore ==
    /\ Carriers(results) = {} => report["risk_score"] = 50 * Scale
    /\ Carriers(results) # {} =>
         /\ report["risk_score"] = WeightedSum(results, Carriers(results))
         /\ (\A m \in Carriers(results) : results[m]["risk_score"] = 0) =>
                report["risk_score"] = 0

C7_Witness ==
    /\ Designated \subseteq DOMAIN results
    /\ \A m \in Designated : results[m] \in { ErrorEntry(t) : t \in FailureTexts }
    /\ report["risk_score"] = 50 * Scale

\* C8 (as claimed): every run that builds a report persists it exactly once,
\* after it is built and before the completion message is printed.
C8_ReportPersistedOnce ==
    pc # "unit" =>
        /\ Len(saved) <= 1
        /\ saved # << >> => (report["built"] /\ saved[1] = report)
        /\ stdout # << >> => (Len(saved) = 1 /\ saved[1] = report)

\* the finding list the recommendation builder scans
ScannedVulns ==
    IF "vulnerability_scanner" \in DOMAIN results
       /\ "vulnerabilities" \in DOMAIN results["vulnerability_scanner"]
    THEN results["vulnerability_scanner"]["vulnerabilities"]
    ELSE << >>

Actionable(v) == "severity" \in DOMAIN v /\ v["severity"] \in { "critical", "high" }

ActionableAt(vulns) == { p \in 1..Len(vulns) : Actionable(vulns[p]) }

ExpectedRec(v) ==
    [ priority |-> "high",
      module |-> "vulnerability_scanner",
      finding |-> IF "name" \in DOMAIN v THEN v["name"] ELSE "Unknown vulnerability",
      action |-> IF "remediation" \in DOMAIN v THEN v["remediation"]
                 ELSE "Patch system immediately" ]

RankOf(r) ==
    CASE r["priority"] = "high" -> 0
      [] r["priority"] = "medium" -> 1
      [] r["priority"] = "low" -> 2
      [] OTHER -> 3

\* C9: the returned list is in priority rank order (high 0, medium 1, low 2,
\* other 3), so no medium entry precedes a high one, and entries of equal
\* priority keep the order in which their findings were scanned.
C9_SortedStable ==
    report["built"] =>
        LET recs == report["recommendations"]
            at == ActionableAt(ScannedVulns)
        IN  /\ \A i, j \in 1..Len(recs) : i < j => RankOf(recs[i]) <= RankOf(recs[j])
            /\ \A k \in 1..Len(recs) :
                 \E p \in at :
                    /\ Cardinality({ q \in at : q <= p }) = k
                    /\ recs[k]["finding"] = ExpectedRec(ScannedVulns[p])["finding"]
                    /\ recs[k]["action"] = ExpectedRec(ScannedVulns[p])["action"]

C9_Witness ==
    /\ report["built"]
    /\ Len(report["recommendations"]) = 2
    /\ report["recommendations"][1]["finding"] # report["recommendations"][2]["finding"]
    /\ Len(ScannedVulns) = 2

\* C10: one recommendation per scanner finding of severity critical or high and
\* none for anything else; each has priority high, module vulnerability_scanner,
\* the finding's name or "Unknown vulnerability", the finding's remediation or
\* "Patch system immediately"; none when the scanner entry is absent or has no
\* finding list.
C10_OnePerActionableFinding ==
    report["built"] =>
        LET recs == report["recommendations"]
            at == ActionableAt(ScannedVulns)
            expected == { ExpectedRec(ScannedVulns[p]) : p \in at }
        IN  /\ Len(recs) = Cardinality(at)
            /\ \A k \in 1..Len(recs) : recs[k] \in expected
            /\ \A r \in expected :
                 Cardinality({ k \in 1..Len(recs) : recs[k] = r })
                   = Cardinality({ p \in at : ExpectedRec(ScannedVulns[p]) = r })
            /\ ( \/ "vulnerability_scanner" \notin DOMAIN results
                 \/ "vulnerabilities" \notin DOMAIN results["vulnerability_scanner"] ) =>
                 recs = << >>

C10_Witness ==
    /\ report["built"]
    /\ ScannedVulns = << [ severity |-> "medium" ], [ severity |-> "high" ] >>
    /\ "policy_analyzer" \in DOMAIN results
    /\ report["recommendations"] =
         << [ priority |-> "high", module |-> "vulnerability_scanner",
              finding |-> "Unknown vulnerability",
              action |-> "Patch system immediately" ] >>

====
